---- MODULE Spec2Model ----
(***************************************************************************)
(* Model of examples/example-01/functions/ResizeImage/lambda_function.py:  *)
(* an S3-triggered handler that downloads every object under 'original/',  *)
(* writes a half-size PNG thumbnail under 'resized/' and removes its two    *)
(* scratch files from /tmp.  Keys and paths are TLA+ strings; the string   *)
(* functions of the handler (unquote_plus, startswith, replace) are        *)
(* computed character by character.                                        *)
(***************************************************************************)
EXTENDS Integers, Sequences, FiniteSets, TLC

VARIABLES inv, tmp, s3, nextUuid, pending, log

vars == <<inv, tmp, s3, nextUuid, pending, log>>

(***************************************************************************)
(* Bounds of the model.                                                    *)
(***************************************************************************)
\* longest batch of the single invocation of Spec
MaxBatch == 2
\* longest batch of each of the two concurrent invocations of SpecConc
MaxConcBatch == 1
\* largest width and height of the source image of SpecDims
MaxDim == 6

(***************************************************************************)
(* Literals of the handler.                                                *)
(***************************************************************************)
BUCKET == "resize-image-demo-ns"
OTHER_BUCKET == "other-bucket"
SRC_PREFIX == "original/"
DST_PREFIX == "resized/"
TMP_DIR == "/tmp/"
RESIZED_TAG == "resized-"
RESULT == [statusCode |-> 200, body |-> "Images resized and uploaded successfully!"]
\* "no value": the invocation has not returned anything
NoResult == [statusCode |-> 0, body |-> ""]

(***************************************************************************)
(* Python string functions used by the handler.                            *)
(***************************************************************************)
\* str.startswith(prefix): byte-wise, case-sensitive
startswith(s, prefix) ==
    /\ Len(prefix) <= Len(s)
    /\ SubSeq(s, 1, Len(prefix)) = prefix

\* str.replace(old, new) for a non-empty old: every non-overlapping
\* occurrence, left to right; replace_from scans s from position i
RECURSIVE replace_from(_, _, _, _)
replace_from(s, old, new, i) ==
    IF i > Len(s) THEN ""
    ELSE IF i + Len(old) - 1 <= Len(s) /\ SubSeq(s, i, i + Len(old) - 1) = old
         THEN new \o replace_from(s, old, new, i + Len(old))
         ELSE SubSeq(s, i, i) \o replace_from(s, old, new, i + 1)

replace(s, old, new) == replace_from(s, old, new, 1)

\* printable ASCII: codes 32..95 and 97..126 (code 96, the backquote, cannot
\* be written in a string of this language and is left out of the tables)
ASCII_LO == " !\"#$%&'()*+,-./0123456789:;<=>?@ABCDEFGHIJKLMNOPQRSTUVWXYZ[\\]^_"
ASCII_HI == "abcdefghijklmnopqrstuvwxyz{|}~"
Decodable == (32..126) \ {96}
HEX_LOWER == "0123456789abcdef"
HEX_UPPER == "0123456789ABCDEF"

IsHex(c) == \E d \in 1..16 : SubSeq(HEX_LOWER, d, d) = c \/ SubSeq(HEX_UPPER, d, d) = c
HexVal(c) == (CHOOSE d \in 1..16 : SubSeq(HEX_LOWER, d, d) = c \/ SubSeq(HEX_UPPER, d, d) = c) - 1
Chr(code) ==
    IF code < 96 THEN SubSeq(ASCII_LO, code - 31, code - 31)
    ELSE SubSeq(ASCII_HI, code - 96, code - 96)
Ord(c) ==
    IF \E n \in 1..Len(ASCII_LO) : SubSeq(ASCII_LO, n, n) = c
    THEN (CHOOSE n \in 1..Len(ASCII_LO) : SubSeq(ASCII_LO, n, n) = c) + 31
    ELSE (CHOOSE n \in 1..Len(ASCII_HI) : SubSeq(ASCII_HI, n, n) = c) + 96

\* urllib.parse.unquote: %XX escapes become the character they encode, a
\* '%' not followed by two hex digits is kept (escapes of printable ASCII
\* only; the keys of the model contain no other escape); unquote_from scans
\* s from position i
HexCode(s, i) == 16 * HexVal(SubSeq(s, i, i)) + HexVal(SubSeq(s, i + 1, i + 1))

RECURSIVE unquote_from(_, _)
unquote_from(s, i) ==
    IF i > Len(s) THEN ""
    ELSE IF /\ SubSeq(s, i, i) = "%"
            /\ i + 2 <= Len(s)
            /\ IsHex(SubSeq(s, i + 1, i + 1))
            /\ IsHex(SubSeq(s, i + 2, i + 2))
            /\ HexCode(s, i + 1) \in Decodable
         THEN Chr(HexCode(s, i + 1)) \o unquote_from(s, i + 3)
         ELSE SubSeq(s, i, i) \o unquote_from(s, i + 1)

unquote(s) == unquote_from(s, 1)

\* urllib.parse.unquote_plus: '+' becomes ' ', then unquote
unquote_plus(s) == unquote(replace(s, "+", " "))

\* the encoding of the object key in a storage event: ' ' becomes '+',
\* letters, digits and "_.-~/" are kept, any other character becomes %XX
SAFE_CHARS == "ABCDEFGHIJKLMNOPQRSTUVWXYZabcdefghijklmnopqrstuvwxyz0123456789_.-~/"
IsSafe(c) == \E n \in 1..Len(SAFE_CHARS) : SubSeq(SAFE_CHARS, n, n) = c
HexByte(n) == SubSeq(HEX_UPPER, (n \div 16) + 1, (n \div 16) + 1)
                  \o SubSeq(HEX_UPPER, (n % 16) + 1, (n % 16) + 1)

RECURSIVE quote_from(_, _)
quote_from(s, i) ==
    IF i > Len(s) THEN ""
    ELSE (IF SubSeq(s, i, i) = " " THEN "+"
          ELSE IF IsSafe(SubSeq(s, i, i)) THEN SubSeq(s, i, i)
          ELSE "%" \o HexByte(Ord(SubSeq(s, i, i))))
         \o quote_from(s, i + 1)

quote_plus(s) == quote_from(s, 1)

\* str(uuid.uuid4()): 36 characters, a fresh value at every call
UuidStr(n) == "3f2b8c1e-9d4a-4e6b-8a57-0c1d2e3f4a5" \o SubSeq(HEX_LOWER, n + 1, n + 1)

(***************************************************************************)
(* Objects, files and the thumbnail computation of resize_image.           *)
(***************************************************************************)
\* the bytes of an object or of a file: a raster image of w x h pixels, or
\* bytes that are no image; "of" names the object the bytes come from
Img(w, h, of) == [img |-> TRUE, w |-> w, h |-> h, of |-> of]
Bin(of) == [img |-> FALSE, w |-> 0, h |-> 0, of |-> of]

Abs(n) == IF n < 0 THEN -n ELSE n
CeilDiv(a, b) == IF a % b = 0 THEN a \div b ELSE (a \div b) + 1

\* the halving left out: the image keeps its size
thumbnail_unscaled(w, h) == [ok |-> TRUE, w |-> w, h |-> h]

\* Image.thumbnail((w // 2, h // 2)) on a w x h image: the size of the result,
\* or ok = FALSE when the call raises (a zero height divides by zero, a zero
\* width is refused by the resize).  The result fits the box and keeps the
\* aspect ratio: the other axis is rounded to the nearer of floor and ceil,
\* and is at least 1.
thumbnail(w, h) ==
    LET x == w \div 2
        y == h \div 2
        \* round_aspect(y * aspect, key = |aspect - n / y|)
        xf == (y * w) \div h
        xc == CeilDiv(y * w, h)
        nx == IF Abs(w * y - xf * h) <= Abs(w * y - xc * h) THEN xf ELSE xc
        \* round_aspect(x / aspect, key = 0 if n == 0 else |aspect - x / n|)
        yf == (x * h) \div w
        yc == CeilDiv(x * h, w)
        ny == IF yf = 0 \/ Abs(w * yf - x * h) * yc <= Abs(w * yc - x * h) * yf
              THEN yf ELSE yc
    IN  IF y = 0 \/ x = 0 THEN [ok |-> FALSE, w |-> 0, h |-> 0]
        ELSE IF x * h >= w * y
             THEN [ok |-> TRUE, w |-> IF nx < 1 THEN 1 ELSE nx, h |-> y]
             ELSE [ok |-> TRUE, w |-> x, h |-> IF ny < 1 THEN 1 ELSE ny]

\* resize_image(image_path, resized_path): the file written to resized_path,
\* or ok = FALSE when Image.open or Image.thumbnail raises
resize_image(fs, image_path) ==
    IF image_path \notin DOMAIN fs \/ ~fs[image_path].data.img
    THEN [ok |-> FALSE, data |-> Bin("")]
    ELSE LET d == fs[image_path].data
             t == thumbnail(d.w, d.h)
         IN  [ok |-> t.ok, data |-> Img(t.w, t.h, d.of)]

(***************************************************************************)
(* The inputs: the objects of the buckets and the records of the batches.  *)
(***************************************************************************)
EmptyDir == [p \in {} |-> Bin("")]

BucketObjects ==
       "original/a.png"            :> Img(4, 4, "a")
    @@ "original/bad.bin"          :> Bin("bad")
    @@ "original/x/original/y.png" :> Img(4, 2, "xoy")
    @@ "original/x/resized/y.png"  :> Img(2, 4, "xry")
    @@ "original/my pic.png"       :> Img(8, 6, "mypic")
    @@ "original/a/b.png"          :> Img(6, 4, "a/b")
    @@ "original/ab.png"           :> Img(4, 6, "ab")
    @@ "original/thin.png"         :> Img(1, 4, "thin")
    @@ "Original/a.png"            :> Img(4, 4, "A")
    @@ "notes/readme.txt"          :> Bin("readme")

OtherBucketObjects ==
       "original/a.png"            :> Img(6, 6, "other-a")

InitS3 == BUCKET :> BucketObjects @@ OTHER_BUCKET :> OtherBucketObjects

Rec(bucket, key) == [bucket |-> bucket, key |-> key]

\* the records of the batches of Spec (object keys as the event carries them)
Records ==
    { Rec(BUCKET, "original/a.png"),
      Rec(BUCKET, "notes/readme.txt"),
      Rec(BUCKET, "original/bad.bin"),
      Rec(BUCKET, "original/x/original/y.png"),
      Rec(BUCKET, "original/x/resized/y.png"),
      Rec(BUCKET, "original%2Fmy+pic.png"),
      Rec(BUCKET, "Original/a.png"),
      Rec(BUCKET, "original/missing.png"),
      Rec(BUCKET, "original/thin.png"),
      Rec(OTHER_BUCKET, "original/a.png") }

\* the records of the batches of SpecConc
ConcRecords ==
    { Rec(BUCKET, "original/a/b.png"),
      Rec(BUCKET, "original/ab.png"),
      Rec(BUCKET, "original/bad.bin"),
      Rec(BUCKET, "notes/readme.txt") }

Batches(R, n) == UNION { [1..k -> R] : k \in 0..n }

\* more invocations than a run can start: every upload is followed by at
\* most one delivery
MaxInv == 2 + MaxBatch + 2 * MaxConcBatch

(***************************************************************************)
(* State.                                                                  *)
(*   inv      the invocations of lambda_handler, in order of start: batch, *)
(*            index i of the current record, position pc, the locals of    *)
(*            the loop body, the returned value                            *)
(*   tmp      the files of /tmp, shared by the invocations                 *)
(*   s3       the objects of the buckets                                   *)
(*   nextUuid the number of uuid4() values drawn so far                    *)
(*   pending  the notifications of the uploads (bucket, encoded key), not   *)
(*            yet delivered                                                *)
(*   log      for each invocation, the calls it made so far, in order      *)
(***************************************************************************)
NewInv(batch, origin) ==
    [batch |-> batch, i |-> 1, pc |-> "loop", origin |-> origin,
     bucket |-> "", key |-> "", tmpkey |-> "", download_path |-> "",
     upload_key |-> "", upload_path |-> "", result |-> NoResult]

Ev(op, v, bucket, key, path, ok) ==
    [op |-> op, inv |-> v, idx |-> inv[v].i, bucket |-> bucket, key |-> key,
     path |-> path, ok |-> ok]

File(v, data) == [data |-> data, by |-> v, rec |-> inv[v].i]

Init ==
    /\ \E batch \in Batches(Records, MaxBatch) : inv = <<NewInv(batch, "event")>>
    /\ tmp = EmptyDir
    /\ s3 = InitS3
    /\ nextUuid = 0
    /\ pending = <<>>
    /\ log = <<<<>>>>

InitConc ==
    /\ \E b1, b2 \in Batches(ConcRecords, MaxConcBatch) :
           inv = <<NewInv(b1, "event"), NewInv(b2, "event")>>
    /\ tmp = EmptyDir
    /\ s3 = InitS3
    /\ nextUuid = 0
    /\ pending = <<>>
    /\ log = <<<<>>, <<>>>>

InitDims ==
    /\ inv = <<NewInv(<<Rec(BUCKET, "original/a.png")>>, "event")>>
    /\ tmp = EmptyDir
    /\ \E w, h \in 1..MaxDim :
           s3 = [InitS3 EXCEPT ![BUCKET] = ("original/a.png" :> Img(w, h, "a")) @@ @]
    /\ nextUuid = 0
    /\ pending = <<>>
    /\ log = <<<<>>>>

(***************************************************************************)
(* lambda_handler, one action per step of the loop body.                   *)
(***************************************************************************)
Invocations == 1..Len(inv)

\* line 17: the decoded key of a record; the keys of the batches are decoded
\* once and looked up afterwards
BatchKeys == {r.key : r \in Records \cup ConcRecords}
DecodedKeys ==
    [raw \in BatchKeys \cup {quote_plus(replace(unquote_plus(k), SRC_PREFIX, DST_PREFIX)) : k \in BatchKeys}
         |-> unquote_plus(raw)]
decoded_key(raw) == IF raw \in DOMAIN DecodedKeys THEN DecodedKeys[raw] ELSE unquote_plus(raw)

\* the filter left out: every key is admitted
admitted_any(key) == TRUE

\* line 19: the prefix filter
admitted(key) == startswith(key, SRC_PREFIX)

\* line 23: the key with every '/' removed
tmpkey_of(key) == replace(key, "/", "")

\* the object written back under its own key
upload_key_in_place(key) == key

\* the two prefixes exchanged
upload_key_swapped(key) == replace(key, DST_PREFIX, SRC_PREFIX)

\* line 25: the destination key
upload_key_of(key) == replace(key, SRC_PREFIX, DST_PREFIX)

\* line 24: the path of the downloaded original
download_path_of(uuid, tmpkey) == TMP_DIR \o uuid \o tmpkey

\* line 26: the path of the resized output
upload_path_of(tmpkey) == TMP_DIR \o RESIZED_TAG \o tmpkey

\* the failure caught: the loop goes on with the next record
Raise_Caught(v, ev) ==
    /\ inv' = [inv EXCEPT ![v].pc = "loop", ![v].i = @ + 1]
    /\ log' = [log EXCEPT ![v] = Append(@, ev)]

\* the exception of a failed call leaves lambda_handler: nothing catches it
Raise(v, ev) ==
    /\ inv' = [inv EXCEPT ![v].pc = "raised"]
    /\ log' = [log EXCEPT ![v] = @ \o <<ev, Ev("raise", v, "", "", "", FALSE)>>]

\* the return placed inside the loop: the result is returned after the
\* first record
Loop_Return_Early(v) ==
    /\ inv[v].pc = "loop"
    /\ inv[v].i > Len(inv[v].batch) \/ inv[v].i > 1
    /\ inv' = [inv EXCEPT ![v].pc = "returned", ![v].result = RESULT]
    /\ log' = [log EXCEPT ![v] = Append(@, Ev("return", v, "", "", "", TRUE))]
    /\ UNCHANGED <<tmp, s3, nextUuid, pending>>

\* lines 15, 36-39: the batch is exhausted, the result is returned
Loop_Return(v) ==
    /\ inv[v].pc = "loop"
    /\ inv[v].i > Len(inv[v].batch)
    /\ inv' = [inv EXCEPT ![v].pc = "returned", ![v].result = RESULT]
    /\ log' = [log EXCEPT ![v] = Append(@, Ev("return", v, "", "", "", TRUE))]
    /\ UNCHANGED <<tmp, s3, nextUuid, pending>>

\* lines 15-21: the decoded key is not under 'original/': print and continue
Loop_Skip(v) ==
    /\ inv[v].pc = "loop"
    /\ inv[v].i <= Len(inv[v].batch)
    /\ LET key == decoded_key(inv[v].batch[inv[v].i].key)
       IN  /\ ~admitted(key)
           /\ inv' = [inv EXCEPT ![v].i = @ + 1]
           /\ log' = [log EXCEPT ![v] = Append(@, Ev("skip", v, "", key, "", TRUE))]
    /\ UNCHANGED <<tmp, s3, nextUuid, pending>>

\* lines 15-26: the decoded key is under 'original/': the locals are set
Loop_Admit(v) ==
    /\ inv[v].pc = "loop"
    /\ inv[v].i <= Len(inv[v].batch)
    /\ nextUuid < Len(HEX_LOWER)
    /\ LET key == decoded_key(inv[v].batch[inv[v].i].key)
           tmpkey == tmpkey_of(key)
       IN  /\ admitted(key)
           /\ inv' = [inv EXCEPT ![v].pc = "download",
                                 ![v].bucket = BUCKET,
                                 ![v].key = key,
                                 ![v].tmpkey = tmpkey,
                                 ![v].download_path = download_path_of(UuidStr(nextUuid), tmpkey),
                                 ![v].upload_key = upload_key_of(key),
                                 ![v].upload_path = upload_path_of(tmpkey)]
    /\ nextUuid' = nextUuid + 1
    /\ UNCHANGED <<tmp, s3, pending, log>>

\* line 28: download_file succeeds, the object is written to download_path
Download_Ok(v) ==
    /\ inv[v].pc = "download"
    /\ inv[v].key \in DOMAIN s3[inv[v].bucket]
    /\ tmp' = (inv[v].download_path :> File(v, s3[inv[v].bucket][inv[v].key])) @@ tmp
    /\ inv' = [inv EXCEPT ![v].pc = "resize"]
    /\ log' = [log EXCEPT ![v] = Append(@, Ev("get", v, inv[v].bucket, inv[v].key, inv[v].download_path, TRUE))]
    /\ UNCHANGED <<s3, nextUuid, pending>>

\* a failed download tried again
Download_Fail_Retry(v) ==
    /\ inv[v].pc = "download"
    /\ Len(log[v]) < 8
    /\ log' = [log EXCEPT ![v] = Append(@, Ev("get", v, inv[v].bucket, inv[v].key, inv[v].download_path, FALSE))]
    /\ UNCHANGED <<inv, tmp, s3, nextUuid, pending>>

\* line 28: download_file raises (no such object, access denied, network);
\* no file is left at download_path
Download_Fail(v) ==
    /\ inv[v].pc = "download"
    /\ Raise(v, Ev("get", v, inv[v].bucket, inv[v].key, inv[v].download_path, FALSE))
    /\ UNCHANGED <<tmp, s3, nextUuid, pending>>

\* line 29: resize_image writes the thumbnail to upload_path
Resize_Ok(v) ==
    /\ inv[v].pc = "resize"
    /\ resize_image(tmp, inv[v].download_path).ok
    /\ tmp' = (inv[v].upload_path :> File(v, resize_image(tmp, inv[v].download_path).data)) @@ tmp
    /\ inv' = [inv EXCEPT ![v].pc = "upload"]
    /\ log' = [log EXCEPT ![v] = Append(@, Ev("resize", v, "", "", inv[v].upload_path, TRUE))]
    /\ UNCHANGED <<s3, nextUuid, pending>>

\* line 29: resize_image raises (file missing, not an image, empty target)
Resize_Fail(v) ==
    /\ inv[v].pc = "resize"
    /\ ~resize_image(tmp, inv[v].download_path).ok
    /\ Raise(v, Ev("resize", v, "", "", inv[v].upload_path, FALSE))
    /\ UNCHANGED <<tmp, s3, nextUuid, pending>>

\* line 30: upload_file succeeds: the object is written (last write wins)
\* and the bucket notifies the write, with the key encoded
Upload_Ok(v) ==
    /\ inv[v].pc = "upload"
    /\ inv[v].upload_path \in DOMAIN tmp
    /\ s3' = [s3 EXCEPT ![inv[v].bucket] = (inv[v].upload_key :> tmp[inv[v].upload_path].data) @@ @]
    /\ pending' = Append(pending, Rec(inv[v].bucket, quote_plus(inv[v].upload_key)))
    /\ inv' = [inv EXCEPT ![v].pc = "rm_download"]
    /\ log' = [log EXCEPT ![v] = Append(@, Ev("put", v, inv[v].bucket, inv[v].upload_key, inv[v].upload_path, TRUE))]
    /\ UNCHANGED <<tmp, nextUuid>>

\* line 30: upload_file raises (file missing, access denied, network)
Upload_Fail(v) ==
    /\ inv[v].pc = "upload"
    /\ Raise(v, Ev("put", v, inv[v].bucket, inv[v].upload_key, inv[v].upload_path, FALSE))
    /\ UNCHANGED <<tmp, s3, nextUuid, pending>>

\* the directory without the file at path
Removed(fs, path) == [p \in DOMAIN fs \ {path} |-> fs[p]]

\* line 33: os.remove(download_path); raises when the file does not exist
RemoveDownload(v) ==
    /\ inv[v].pc = "rm_download"
    /\ IF inv[v].download_path \in DOMAIN tmp
       THEN /\ tmp' = Removed(tmp, inv[v].download_path)
            /\ inv' = [inv EXCEPT ![v].pc = "rm_upload"]
            /\ log' = [log EXCEPT ![v] = Append(@, Ev("remove", v, "", "", inv[v].download_path, TRUE))]
       ELSE /\ Raise(v, Ev("remove", v, "", "", inv[v].download_path, FALSE))
            /\ UNCHANGED tmp
    /\ UNCHANGED <<s3, nextUuid, pending>>

\* the loop starting over at the first record after a record is done
RemoveUpload_Restart(v) ==
    /\ inv[v].pc = "rm_upload"
    /\ Len(log[v]) < 12
    /\ inv' = [inv EXCEPT ![v].pc = "loop", ![v].i = 1]
    /\ tmp' = Removed(tmp, inv[v].upload_path)
    /\ log' = [log EXCEPT ![v] = Append(@, Ev("remove", v, "", "", inv[v].upload_path, TRUE))]
    /\ UNCHANGED <<s3, nextUuid, pending>>

\* line 34: os.remove(upload_path); raises when the file does not exist;
\* then the loop goes on with the next record
RemoveUpload(v) ==
    /\ inv[v].pc = "rm_upload"
    /\ IF inv[v].upload_path \in DOMAIN tmp
       THEN /\ tmp' = Removed(tmp, inv[v].upload_path)
            /\ inv' = [inv EXCEPT ![v].pc = "loop", ![v].i = @ + 1]
            /\ log' = [log EXCEPT ![v] = Append(@, Ev("remove", v, "", "", inv[v].upload_path, TRUE))]
       ELSE /\ Raise(v, Ev("remove", v, "", "", inv[v].upload_path, FALSE))
            /\ UNCHANGED tmp
    /\ UNCHANGED <<s3, nextUuid, pending>>

\* the event source delivers the notification of a write: lambda_handler is
\* invoked with a batch of that one record
Deliver(n) ==
    /\ n \in 1..Len(pending)
    /\ Len(inv) < MaxInv
    /\ inv' = Append(inv, NewInv(<<pending[n]>>, "delivered"))
    /\ pending' = [m \in 1..(Len(pending) - 1) |-> IF m < n THEN pending[m] ELSE pending[m + 1]]
    /\ log' = Append(log, <<>>)
    /\ UNCHANGED <<tmp, s3, nextUuid>>

Next ==
    \/ \E v \in Invocations : Loop_Return(v)
    \/ \E v \in Invocations : Loop_Skip(v)
    \/ \E v \in Invocations : Loop_Admit(v)
    \/ \E v \in Invocations : Download_Ok(v)
    \/ \E v \in Invocations : Download_Fail(v)
    \/ \E v \in Invocations : Resize_Ok(v)
    \/ \E v \in Invocations : Resize_Fail(v)
    \/ \E v \in Invocations : Upload_Ok(v)
    \/ \E v \in Invocations : Upload_Fail(v)
    \/ \E v \in Invocations : RemoveDownload(v)
    \/ \E v \in Invocations : RemoveUpload(v)
    \/ \E n \in 1..Len(pending) : Deliver(n)

\* the steps of the started invocations alone: no notification is delivered
NextConc ==
    \/ \E v \in Invocations : Loop_Return(v)
    \/ \E v \in Invocations : Loop_Skip(v)
    \/ \E v \in Invocations : Loop_Admit(v)
    \/ \E v \in Invocations : Download_Ok(v)
    \/ \E v \in Invocations : Download_Fail(v)
    \/ \E v \in Invocations : Resize_Ok(v)
    \/ \E v \in Invocations : Resize_Fail(v)
    \/ \E v \in Invocations : Upload_Ok(v)
    \/ \E v \in Invocations : Upload_Fail(v)
    \/ \E v \in Invocations : RemoveDownload(v)
    \/ \E v \in Invocations : RemoveUpload(v)

\* one invocation with a batch of at most MaxBatch records
Spec == Init /\ [][Next]_vars

\* two invocations that share /tmp and the bucket
SpecConc == InitConc /\ [][NextConc]_vars

\* one invocation on one image of every size up to MaxDim x MaxDim
SpecDims == InitDims /\ [][Next]_vars

\* every started call returns or fails, every notification is delivered
FairSpec == Spec /\ WF_vars(Next)

(***************************************************************************)
(* Vocabulary of the properties.                                           *)
(***************************************************************************)
\* the key begins with the nine characters of the source prefix
HasSourcePrefix(key) == Len(key) >= 9 /\ SubSeq(key, 1, 9) = "original/"

\* the Key Mapping: the leading source prefix replaced by the destination
\* prefix, the rest of the key kept
KeyMapping(key) == "resized/" \o SubSeq(key, 10, Len(key))

\* the decoded key of record j of invocation v
KeyOf(v, j) == decoded_key(inv[v].batch[j].key)

\* the calls of invocation v, by kind
Events(v, ops) == { k \in 1..Len(log[v]) : log[v][k].op \in ops }
IoOps == {"get", "resize", "put", "remove"}
Ended(v) == inv[v].pc \in {"returned", "raised"}

\* the object named by a record exists and resize_image accepts it
Valid(r) ==
    /\ HasSourcePrefix(decoded_key(r.key))
    /\ decoded_key(r.key) \in DOMAIN InitS3[r.bucket]
    /\ InitS3[r.bucket][decoded_key(r.key)].img
    /\ thumbnail(InitS3[r.bucket][decoded_key(r.key)].w, InitS3[r.bucket][decoded_key(r.key)].h).ok

(***************************************************************************)
(* C1: a record whose decoded key does not start with 'original/' is       *)
(* skipped without side effect: no call (download, resize, upload, remove) *)
(* is ever made for it and no file of /tmp belongs to it, and the step     *)
(* that handles it changes nothing but the loop index, which moves to the  *)
(* next record.                                                            *)
(***************************************************************************)
C1_NoCallForSkipped ==
    /\ \A v \in Invocations : \A k \in Events(v, IoOps) :
           HasSourcePrefix(KeyOf(v, log[v][k].idx))
    /\ \A p \in DOMAIN tmp : HasSourcePrefix(KeyOf(tmp[p].by, tmp[p].rec))

C1_SkipStep ==
    \A v \in Invocations :
        ( /\ inv[v].pc = "loop"
          /\ inv[v].i <= Len(inv[v].batch)
          /\ ~HasSourcePrefix(KeyOf(v, inv[v].i))
          /\ inv'[v] # inv[v] )
        => /\ inv'[v] = [inv[v] EXCEPT !.i = @ + 1]
           /\ tmp' = tmp
           /\ s3' = s3
           /\ pending' = pending
           /\ nextUuid' = nextUuid
           /\ Events(v, IoOps)' = Events(v, IoOps)

C1_SkipWithoutSideEffect == []C1_NoCallForSkipped /\ [][C1_SkipStep]_vars

\* a record was skipped and the next record of the batch was downloaded
C1_Witness ==
    \E v \in Invocations : \E k \in Events(v, {"skip"}) :
        /\ ~HasSourcePrefix(log[v][k].key)
        /\ \E g \in Events(v, {"get"}) : log[v][g].idx = log[v][k].idx + 1 /\ log[v][g].ok

(***************************************************************************)
(* C2: the upload key of an admitted key is the key with only the leading  *)
(* 'original/' replaced by 'resized/'.                                     *)
(***************************************************************************)
C2_OnlyLeadingPrefixReplaced ==
    \A v \in Invocations :
        inv[v].pc \in {"download", "resize", "upload", "rm_download", "rm_upload"}
        => inv[v].upload_key = KeyMapping(inv[v].key)

(***************************************************************************)
(* C3: a failure for one record aborts that record only: when the          *)
(* invocation has ended, every valid record of the batch for which no call *)
(* failed has been uploaded to its destination key.                        *)
(***************************************************************************)
C3_FailureContained ==
    \A v \in Invocations :
        Ended(v) =>
            \A j \in 1..Len(inv[v].batch) :
                ( /\ Valid(inv[v].batch[j])
                  /\ \A k \in Events(v, IoOps) : log[v][k].idx = j => log[v][k].ok )
                => \E k \in Events(v, {"put"}) :
                       /\ log[v][k].idx = j
                       /\ log[v][k].ok
                       /\ log[v][k].key = KeyMapping(KeyOf(v, j))

(***************************************************************************)
(* C4: no scratch file outlives the processing of its record: between two  *)
(* records, and when the invocation has ended in any way, /tmp holds no    *)
(* file that the invocation created.                                       *)
(***************************************************************************)
C4_NoScratchFileLeft ==
    \A v \in Invocations :
        inv[v].pc \in {"loop", "returned", "raised"}
        => \A p \in DOMAIN tmp : tmp[p].by # v

(***************************************************************************)
(* C5: the local paths of one invocation (download path and resized-output *)
(* path) never coincide with a local path of another invocation, running   *)
(* or ended.                                                               *)
(***************************************************************************)
PathsOf(v) == {inv[v].download_path, inv[v].upload_path} \ {""}

C5_PathsIsolated ==
    \A v1, v2 \in Invocations :
        v1 # v2 => PathsOf(v1) \cap PathsOf(v2) = {}

(***************************************************************************)
(* C6: the key mapping is injective: two uploads made for distinct source  *)
(* keys never go to the same destination key.                              *)
(***************************************************************************)
C6_MappingInjective ==
    \A v1, v2 \in Invocations :
        \A k1 \in Events(v1, {"put"}) : \A k2 \in Events(v2, {"put"}) :
            KeyOf(v1, log[v1][k1].idx) # KeyOf(v2, log[v2][k2].idx)
            => log[v1][k1].key # log[v2][k2].key

(***************************************************************************)
(* C7: when a batch has been processed without error, the number of        *)
(* storage writes equals the number of admitted records, the write of each *)
(* record goes to the mapped destination key of that record, no write is   *)
(* made for a skipped record, and the fixed result is returned.            *)
(***************************************************************************)
AdmittedRecords(v) == { j \in 1..Len(inv[v].batch) : HasSourcePrefix(KeyOf(v, j)) }

C7_EndToEnd ==
    \A v \in Invocations :
        inv[v].pc = "returned" =>
            /\ Cardinality(Events(v, {"put"})) = Cardinality(AdmittedRecords(v))
            /\ \A j \in AdmittedRecords(v) : \E k \in Events(v, {"put"}) :
                   /\ log[v][k].idx = j
                   /\ log[v][k].ok
                   /\ log[v][k].key = KeyMapping(KeyOf(v, j))
            /\ \A k \in Events(v, {"put"}) : log[v][k].idx \in AdmittedRecords(v)
            /\ inv[v].result = RESULT

(***************************************************************************)
(* C8: every invocation whose record loop is over, with or without a       *)
(* failed record, has returned the fixed result, once.                     *)
(***************************************************************************)
C8_ResultUnconditional ==
    \A v \in Invocations :
        Ended(v) => /\ inv[v].result = RESULT
                    /\ Cardinality(Events(v, {"return"})) = 1

(***************************************************************************)
(* C9: no reprocessing loop: no key the handler uploads to passes the      *)
(* prefix filter once its notification is decoded, an invocation started   *)
(* by the notification of an upload makes no call and creates no file, and *)
(* the handler together with the delivery of its own notifications comes   *)
(* to rest: all invocations ended, nothing left to deliver, no more write. *)
(***************************************************************************)
C9_UploadsAreFiltered ==
    /\ \A v \in Invocations : \A k \in Events(v, {"put"}) :
           ~HasSourcePrefix(decoded_key(quote_plus(log[v][k].key)))
    /\ \A v \in Invocations :
           inv[v].origin = "delivered"
           => /\ Events(v, IoOps) = {}
              /\ \A p \in DOMAIN tmp : tmp[p].by # v

Quiescent ==
    /\ pending = <<>>
    /\ \A v \in Invocations : Ended(v)

C9_NoReprocessingLoop == []C9_UploadsAreFiltered /\ <>[]Quiescent

\* the notification of an upload was delivered and its invocation returned
\* after skipping the record
C9_Witness ==
    /\ Quiescent
    /\ \E v \in Invocations :
           /\ inv[v].origin = "delivered"
           /\ inv[v].pc = "returned"
           /\ Events(v, {"skip"}) # {}
           /\ \E u \in Invocations : \E k \in Events(u, {"put"}) :
                  log[u][k].ok /\ log[u][k].key = KeyOf(v, 1)

(***************************************************************************)
(* C10: the first failed call of an invocation is not caught: the          *)
(* invocation is aborted for good, returns no result, makes no call for a  *)
(* later record, and the files already created for the failing record stay *)
(* in /tmp.                                                                *)
(***************************************************************************)
FailedEvents(v) == { k \in Events(v, IoOps) : ~log[v][k].ok }

C10_Aborted ==
    \A v \in Invocations :
        /\ FailedEvents(v) # {} => inv[v].pc = "raised"
        /\ inv[v].pc = "raised" =>
               /\ Cardinality(FailedEvents(v)) = 1
               /\ inv[v].result = NoResult
               /\ Events(v, {"return"}) = {}
               /\ \A k \in 1..Len(log[v]) : log[v][k].idx <= inv[v].i
               /\ \A k \in Events(v, {"get", "resize"}) :
                      (log[v][k].idx = inv[v].i /\ log[v][k].ok)
                      => /\ log[v][k].path \in DOMAIN tmp
                         /\ tmp[log[v][k].path].by = v

C10_RaisedIsFinal ==
    \A v \in Invocations :
        inv[v].pc = "raised" => inv'[v] = inv[v] /\ log'[v] = log[v]

C10_BaselinePropagation == []C10_Aborted /\ [][C10_RaisedIsFinal]_vars

\* an invocation was aborted before its last record, with a file left in /tmp
C10_Witness ==
    \E v \in Invocations :
        /\ inv[v].pc = "raised"
        /\ inv[v].i < Len(inv[v].batch)
        /\ \E p \in DOMAIN tmp : tmp[p].by = v

(***************************************************************************)
(* C11: processing is strictly sequential: the calls of an invocation are  *)
(* made in the order of the batch, the calls of one record are a prefix of *)
(* fetch, transform, upload, remove the download, remove the output, every *)
(* record before the current one is finished (skipped, or all five calls   *)
(* made), and the result is returned last, after the last record.          *)
(***************************************************************************)
\* the calls of record j of invocation v, in order
CallsOf(v, j) == SelectSeq(log[v], LAMBDA e : e.idx = j /\ e.op \in IoOps \cup {"skip"})
OpsOf(v, j) == [k \in 1..Len(CallsOf(v, j)) |-> CallsOf(v, j)[k].op]

RecordSteps == <<"get", "resize", "put", "remove", "remove">>

Finished(v, j) == OpsOf(v, j) = <<"skip">> \/ OpsOf(v, j) = RecordSteps

C11_Sequential ==
    \A v \in Invocations :
        /\ \A k, l \in 1..Len(log[v]) : k < l => log[v][k].idx <= log[v][l].idx
        /\ \A j \in 1..Len(inv[v].batch) :
               \/ OpsOf(v, j) = <<"skip">>
               \/ /\ Len(OpsOf(v, j)) <= Len(RecordSteps)
                  /\ OpsOf(v, j) = SubSeq(RecordSteps, 1, Len(OpsOf(v, j)))
        /\ \A j \in 1..Len(inv[v].batch) :
               /\ Len(CallsOf(v, j)) = 5 =>
                      /\ CallsOf(v, j)[4].path = CallsOf(v, j)[1].path
                      /\ CallsOf(v, j)[5].path = CallsOf(v, j)[2].path
               /\ j < inv[v].i => Finished(v, j)
               /\ j > inv[v].i => CallsOf(v, j) = <<>>
        /\ \A k \in Events(v, {"return"}) :
               /\ k = Len(log[v])
               /\ \A j \in 1..Len(inv[v].batch) : Finished(v, j)

\* a batch of two admitted records was processed to the end
C11_Witness ==
    \E v \in Invocations :
        /\ inv[v].pc = "returned"
        /\ Len(inv[v].batch) >= 2
        /\ OpsOf(v, 1) = RecordSteps
        /\ OpsOf(v, 2) = RecordSteps

(***************************************************************************)
(* C12: cleanup tolerates a missing file: removing the download file or    *)
(* the resized file of a record never raises, whether the file exists or   *)
(* not, and no invocation is aborted by its cleanup.                       *)
(***************************************************************************)
C12_CleanupTolerant ==
    \A v \in Invocations : \A k \in Events(v, {"remove"}) :
        /\ log[v][k].ok
        /\ k < Len(log[v]) => log[v][k + 1].op # "raise"

(***************************************************************************)
(* C13: every download reads the bucket named in the record and every     *)
(* upload writes that same bucket.                                         *)
(***************************************************************************)
C13_RecordBucketUsed ==
    \A v \in Invocations : \A k \in Events(v, {"get", "put"}) :
        log[v][k].bucket = inv[v].batch[log[v][k].idx].bucket

(***************************************************************************)
(* C14 as claimed: for every source image of N x M pixels, N, M >= 1,      *)
(* resize_image writes an image of width at most N div 2 and height at     *)
(* most M div 2 that keeps the aspect ratio up to integer rounding.        *)
(***************************************************************************)
SrcOf(v) == tmp[inv[v].download_path].data
OutOf(v) == tmp[inv[v].upload_path].data

\* one axis fills the box, the other is less than one pixel away from the
\* proportional size
AspectKept(n, m, w, h) ==
    \/ w = n \div 2 /\ Abs(h * n - w * m) < n
    \/ h = m \div 2 /\ Abs(w * m - h * n) < m

FitsHalf(v) ==
    /\ OutOf(v).img
    /\ OutOf(v).w <= SrcOf(v).w \div 2
    /\ OutOf(v).h <= SrcOf(v).h \div 2
    /\ AspectKept(SrcOf(v).w, SrcOf(v).h, OutOf(v).w, OutOf(v).h)

C14_EveryImageResized ==
    \A v \in Invocations :
        /\ \A k \in Events(v, {"resize"}) : log[v][k].ok
        /\ inv[v].pc = "upload" => FitsHalf(v)

(***************************************************************************)
(* C14 as amended: for N, M >= 2 resize_image writes an image of at least  *)
(* 1 x 1 pixels, of width at most N div 2 and height at most M div 2, that *)
(* keeps the aspect ratio up to integer rounding; for N = 1 or M = 1,      *)
(* where a target dimension is 0, resize_image raises and writes no file.  *)
(***************************************************************************)
C14_HalfSizeThumbnail ==
    \A v \in Invocations :
        /\ inv[v].pc = "upload" =>
               /\ SrcOf(v).w >= 2 /\ SrcOf(v).h >= 2
               /\ FitsHalf(v)
               /\ OutOf(v).w >= 1 /\ OutOf(v).h >= 1
        /\ \A k \in Events(v, {"resize"}) :
               ~log[v][k].ok =>
                   /\ SrcOf(v).w = 1 \/ SrcOf(v).h = 1
                   /\ inv[v].upload_path \notin DOMAIN tmp

\* a 5 x 3 image was resized to 2 x 1, and not yet uploaded
C14_Witness ==
    \E v \in Invocations :
        /\ inv[v].pc = "upload"
        /\ SrcOf(v).w = 5 /\ SrcOf(v).h = 3
        /\ OutOf(v).w = 2 /\ OutOf(v).h = 1

(***************************************************************************)
(* C15: source objects are never modified: every upload goes to a key that *)
(* starts with 'resized/' and not with 'original/', no object is deleted,  *)
(* and the objects under 'original/' of every bucket are those of the      *)
(* start, with their contents.                                             *)
(***************************************************************************)
SourceKeys(objects) == { k \in DOMAIN objects : HasSourcePrefix(k) }

C15_SourcesUntouched ==
    /\ \A v \in Invocations : \A k \in Events(v, {"put"}) :
           /\ Len(log[v][k].key) >= 8
           /\ SubSeq(log[v][k].key, 1, 8) = "resized/"
           /\ ~HasSourcePrefix(log[v][k].key)
    /\ \A b \in DOMAIN s3 :
           /\ DOMAIN InitS3[b] \subseteq DOMAIN s3[b]
           /\ SourceKeys(s3[b]) = SourceKeys(InitS3[b])
           /\ \A k \in SourceKeys(s3[b]) : s3[b][k] = InitS3[b][k]

\* an object was written under 'resized/'
C15_Witness ==
    /\ \E v \in Invocations : \E k \in Events(v, {"put"}) : log[v][k].ok
    /\ \E b \in DOMAIN s3 : DOMAIN s3[b] # DOMAIN InitS3[b]

(***************************************************************************)
(* C16: no retry and no upload without a transform: an invocation makes at *)
(* most one download, one transform and one upload for each record, and an *)
(* upload is made only after the download and then the transform of the    *)
(* same record succeeded.                                                  *)
(***************************************************************************)
EventsOf(v, j, op) == { k \in Events(v, {op}) : log[v][k].idx = j }

C16_AtMostOnce ==
    \A v \in Invocations : \A j \in 1..Len(inv[v].batch) :
        /\ Cardinality(EventsOf(v, j, "get")) <= 1
        /\ Cardinality(EventsOf(v, j, "resize")) <= 1
        /\ Cardinality(EventsOf(v, j, "put")) <= 1
        /\ \A p \in EventsOf(v, j, "put") :
               \E g \in EventsOf(v, j, "get") : \E r \in EventsOf(v, j, "resize") :
                   /\ g < r /\ r < p
                   /\ log[v][g].ok /\ log[v][r].ok

\* a record was uploaded in one invocation and another record's download failed
C16_Witness ==
    \E v \in Invocations : \E j1, j2 \in 1..Len(inv[v].batch) :
        /\ \E p \in EventsOf(v, j1, "put") : log[v][p].ok
        /\ \E g \in EventsOf(v, j2, "get") : ~log[v][g].ok

(***************************************************************************)
(* C17: termination: when every download, transform and upload returns or  *)
(* fails (weak fairness of the steps), every invocation of a finite batch   *)
(* eventually ends, returned or raised, and it makes at most one pass over *)
(* the records: each step of an invocation moves it strictly forward in    *)
(* the order (record index, position in the loop body), and the index      *)
(* never passes the end of the batch by more than one.                     *)
(***************************************************************************)
PcRank(pc) ==
    CASE pc = "loop"        -> 0
      [] pc = "download"    -> 1
      [] pc = "resize"      -> 2
      [] pc = "upload"      -> 3
      [] pc = "rm_download" -> 4
      [] pc = "rm_upload"   -> 5
      [] pc = "returned"    -> 6
      [] pc = "raised"      -> 6

Progress(r) == 7 * r.i + PcRank(r.pc)

OnePass ==
    \A v \in Invocations :
        /\ inv'[v].i <= Len(inv[v].batch) + 1
        /\ inv'[v] # inv[v] =>
               /\ ~Ended(v)
               /\ inv'[v].batch = inv[v].batch
               /\ Progress(inv'[v]) > Progress(inv[v])

AllEnded == \A v \in Invocations : Ended(v)

C17_Terminates == [][OnePass]_vars /\ []<>AllEnded

\* an invocation went through a batch of two records, one of them uploaded,
\* and returned
C17_Witness ==
    \E v \in Invocations :
        /\ inv[v].pc = "returned"
        /\ Len(inv[v].batch) >= 2
        /\ inv[v].i = Len(inv[v].batch) + 1
        /\ Events(v, {"put"}) # {}

====
